---- MODULE Spec2Model ----
(***************************************************************************)
(* The tutoring orchestrator of src/agents.py: LearningAgent's session     *)
(* state machine (process_message and its four phase handlers), the        *)
(* question selector, the live-question table, the grading interpreter     *)
(* (AssessmentAgent.evaluate_answer with its rule-based fallback) and the   *)
(* keyword intent detectors, over the in-memory store of src/database.py.  *)
(*                                                                         *)
(* Text is a sequence of characters; a character is a one-letter string,   *)
(* or "Uxxxx" for the code point of a non-ASCII character.                 *)
(***************************************************************************)
EXTENDS Integers, Sequences, FiniteSets, TLC

VARIABLES
    questions,    \* db.questions: the ids of the stored Question records
    sessions,     \* db.sessions: session id -> Session
    current,      \* LearningAgent._current_question_by_session
    turn          \* the last operation and, for a chat turn, what
                  \* process_message did and returned

vars == <<questions, sessions, current, turn>>

(***************************************************************************)
(* Text                                                                    *)
(***************************************************************************)
UpperChars ==
    <<"A", "B", "C", "D", "E", "F", "G", "H", "I", "J", "K", "L", "M",
      "N", "O", "P", "Q", "R", "S", "T", "U", "V", "W", "X", "Y", "Z">>
LowerChars ==
    <<"a", "b", "c", "d", "e", "f", "g", "h", "i", "j", "k", "l", "m",
      "n", "o", "p", "q", "r", "s", "t", "u", "v", "w", "x", "y", "z">>

\* str.lower() on one character
LowerChar(c) ==
    IF \E i \in DOMAIN UpperChars : UpperChars[i] = c
    THEN LowerChars[CHOOSE i \in DOMAIN UpperChars : UpperChars[i] = c]
    ELSE c

\* str.upper() on one character
UpperChar(c) ==
    IF \E i \in DOMAIN LowerChars : LowerChars[i] = c
    THEN UpperChars[CHOOSE i \in DOMAIN LowerChars : LowerChars[i] = c]
    ELSE c

StrLower(s) == [i \in 1..Len(s) |-> LowerChar(s[i])]

StrUpper(s) == [i \in 1..Len(s) |-> UpperChar(s[i])]

IsSpace(c) == c \in {" ", "\n", "\t"}

\* str.strip(): drop the leading and the trailing whitespace
RECURSIVE LStrip(_)
LStrip(s) == IF s # <<>> /\ IsSpace(Head(s)) THEN LStrip(Tail(s)) ELSE s

RECURSIVE RStrip(_)
RStrip(s) ==
    IF s # <<>> /\ IsSpace(s[Len(s)]) THEN RStrip(SubSeq(s, 1, Len(s) - 1)) ELSE s

Strip(s) == RStrip(LStrip(s))

\* Python's `needle in hay` on strings
Contains(needle, hay) ==
    \E i \in 0..(Len(hay) - Len(needle)) : SubSeq(hay, i + 1, i + Len(needle)) = needle

\* any(k in m for k in keywords)
AnyKeywordIn(keywords, m) == \E i \in DOMAIN keywords : Contains(keywords[i], m)

(***************************************************************************)
(* Intent classifier                                                       *)
(***************************************************************************)
PracticeKeywords ==
    << <<"U7EC3", "U4E60">>,
       <<"U505A", "U9898">>,
       <<"U6D4B", "U8BD5">>,
       <<"U51FA", "U9898">>,
       <<"U8003", "U8003", "U6211">>,
       <<"q", "u", "i", "z">>,
       <<"t", "e", "s", "t">>,
       <<"p", "r", "a", "c", "t", "i", "c", "e">> >>

HintKeywords ==
    << <<"U7ED9", "U6211", "U63D0", "U793A">>,
       <<"U63D0", "U793A">>,
       <<"h", "i", "n", "t">>,
       <<"U7ED9", "U70B9", "U63D0", "U793A">>,
       <<"U6765", "U70B9", "U63D0", "U793A">>,
       <<"U4E0D", "U4F1A">>,
       <<"U601D", "U8DEF">>,
       <<"U600E", "U4E48", "U505A">> >>

_wants_practice(message) == AnyKeywordIn(PracticeKeywords, StrLower(message))

_wants_hint(message) == AnyKeywordIn(HintKeywords, StrLower(message))

(***************************************************************************)
(* Content store (src/database.py) and data model (src/models.py)          *)
(***************************************************************************)
None == "None"

\* Optional[str] topic_id: None and "" are both falsy where the code tests it
NoTopic == <<>>

SessionIds == {"s1", "s2"}

Subjects == {"history", "politics"}

SessionStates == {"learning", "assessing", "transfer_test", "mastered", "remediation"}

GradeLevels == {"A", "B", "C"}

\* The Question records the store can hold (a slice of the preset data:
\* per subject a topic with practice and transfer questions and a topic
\* with a judgment question only).
QuestionIds == {"h1", "h2", "h3", "p1"}

Question(id) ==
    CASE id = "h1" ->
           [id |-> "h1", subject |-> "history", topic_id |-> <<"t", "1">>,
            question_type |-> "choice", correct_answer |-> <<"B">>,
            is_transfer |-> FALSE]
      [] id = "h2" ->
           [id |-> "h2", subject |-> "history", topic_id |-> <<"t", "1">>,
            question_type |-> "application",
            correct_answer |-> <<"U5F00", "U653E", "U6027", "U7B54", "U6848">>,
            is_transfer |-> TRUE]
      [] id = "h3" ->
           [id |-> "h3", subject |-> "history", topic_id |-> <<"t", "2">>,
            question_type |-> "judgment", correct_answer |-> <<"U9519", "U8BEF">>,
            is_transfer |-> FALSE]
      [] id = "p1" ->
           [id |-> "p1", subject |-> "politics", topic_id |-> <<"t", "3">>,
            question_type |-> "qa", correct_answer |-> <<"n", "o", " ", "t", "a", "x">>,
            is_transfer |-> FALSE]

\* Database.get_topics_by_subject: the topics of the subject's knowledge
\* items, in insertion order
get_topics_by_subject(subject) ==
    IF subject = "history"
    THEN << [id |-> <<"t", "1">>, name |-> <<"U6539", "U9769">>],
            [id |-> <<"t", "2">>, name |-> <<"U79E6", "U671D">>] >>
    ELSE << [id |-> <<"t", "3">>, name |-> <<"U5E02", "U573A">>] >>

\* faulty variant: the subject is not tested
get_questions_by_subject_any(subject) == questions

get_questions_by_subject(subject) ==
    {q \in questions : Question(q).subject = subject}

get_questions_by_topic(subject, topic_id) ==
    {q \in questions : Question(q).subject = subject /\ Question(q).topic_id = topic_id}

\* faulty variant: the transfer flag is not tested
get_transfer_questions_any_flag(subject, topic_id) ==
    {q \in questions : Question(q).subject = subject /\ Question(q).topic_id = topic_id}

get_transfer_questions(subject, topic_id) ==
    {q \in questions : /\ Question(q).subject = subject
                       /\ Question(q).topic_id = topic_id
                       /\ Question(q).is_transfer}

\* Database.create_session: Session(student_id, subject) with the defaults
\* of the Session model
create_session(id, subject) ==
    [id |-> id, subject |-> subject, topic_id |-> NoTopic, state |-> "learning",
     current_grade |-> "C", consecutive_failures |-> 0]

(***************************************************************************)
(* Generative service                                                      *)
(*                                                                         *)
(* A reply of the service is [failed, tag, candidates]: the call raised    *)
(* with an exception text, or it returned a text; either text is named by  *)
(* its tag and is one in which the pattern of evaluate_answer finds the    *)
(* candidate blocks in order.  A candidate is                              *)
(* [parses, keys, is_correct, grade, error_type, error_description,        *)
(* improvement_suggestion]: whether json.loads accepts it, the keys of the *)
(* object, the truth value of is_correct, the text of grade, and the       *)
(* truth values of the three optional fields.                              *)
(***************************************************************************)
Candidate(parses, keys, is_correct, grade, error_type) ==
    [parses |-> parses, keys |-> keys, is_correct |-> is_correct, grade |-> grade,
     error_type |-> error_type, error_description |-> error_type # None,
     improvement_suggestion |-> error_type # None]

RequiredKeys == {"is_correct", "grade", "feedback"}

\* what the service answers to a teaching, hint or remediation request
GenReplies ==
    { [failed |-> FALSE, tag |-> "LLM_TEXT", candidates |-> <<>>],
      [failed |-> TRUE, tag |-> "EXCEPTION", candidates |-> <<>>] }

\* what the service answers to a grading request
EvalReplies ==
    { [failed |-> FALSE, tag |-> "LLM_JSON", candidates |->
         << Candidate(TRUE, RequiredKeys, TRUE, <<"A">>, None) >>],
      [failed |-> FALSE, tag |-> "LLM_JSON", candidates |->
         << Candidate(TRUE, RequiredKeys, TRUE, <<" ", "b">>, None) >>],
      [failed |-> FALSE, tag |-> "LLM_JSON", candidates |->
         << Candidate(FALSE, {}, FALSE, <<>>, None),
            Candidate(TRUE, RequiredKeys, FALSE, <<"C">>, "conceptual") >>],
      [failed |-> FALSE, tag |-> "LLM_JSON", candidates |->
         << Candidate(TRUE, RequiredKeys, FALSE, <<"B">>, None) >>],
      [failed |-> FALSE, tag |-> "LLM_JSON", candidates |->
         << Candidate(TRUE, RequiredKeys, TRUE, <<"D">>, None) >>],
      [failed |-> FALSE, tag |-> "LLM_PROSE", candidates |->
         << Candidate(TRUE, {"is_correct", "grade"}, TRUE, <<"A">>, None) >>],
      [failed |-> TRUE, tag |-> "EXCEPTION", candidates |->
         << Candidate(FALSE, {}, FALSE, <<>>, None) >>] }

\* faulty variant: a call that raised returns an empty text
_call_llm_silent(reply) ==
    IF reply.failed
    THEN [tag |-> "", candidates |-> <<>>]
    ELSE [tag |-> reply.tag, candidates |-> reply.candidates]

\* BaseAgent._call_llm: the content of the reply, or, when the call raised,
\* the service-unavailable text, which ends with str(e) and so holds the
\* brace blocks of the exception text
_call_llm(reply) ==
    IF reply.failed
    THEN [tag |-> "LLM_UNAVAILABLE", candidates |-> reply.candidates]
    ELSE [tag |-> reply.tag, candidates |-> reply.candidates]

(***************************************************************************)
(* Grading interpreter (AssessmentAgent)                                   *)
(***************************************************************************)
CorrectKeywords ==
    << <<"U6B63", "U786E">>, <<"U5BF9">>, <<"t", "r", "u", "e">>, <<"y", "e", "s">>,
       <<"U221A">> >>

WrongKeywords ==
    << <<"U9519", "U8BEF">>, <<"U9519">>, <<"f", "a", "l", "s", "e">>, <<"n", "o">>,
       <<"U00D7">> >>

\* str.split(): the maximal runs of non-whitespace characters, in order
RECURSIVE Split(_)
Split(s) ==
    LET t == LStrip(s)
    IN  IF t = <<>>
        THEN <<>>
        ELSE LET stops == {i \in 1..Len(t) : IsSpace(t[i])}
                 n == IF stops = {} THEN Len(t) + 1
                      ELSE CHOOSE i \in stops : \A j \in stops : i <= j
             IN  <<SubSeq(t, 1, n - 1)>> \o Split(SubSeq(t, n, Len(t)))

\* faulty variant: more than half of the keywords must be found
_simple_check_strict_majority(question, answer) ==
    LET correct == Strip(StrLower(question.correct_answer))
        student == Strip(StrLower(answer))
        keywords == Split(correct)
        matches == Cardinality({i \in DOMAIN keywords : Contains(keywords[i], student)})
    IN  IF question.question_type = "choice"
        THEN Contains(correct, student) \/ Contains(student, correct)
        ELSE IF question.question_type = "judgment"
        THEN IF \E i \in DOMAIN CorrectKeywords : CorrectKeywords[i] = correct
             THEN AnyKeywordIn(CorrectKeywords, student)
             ELSE AnyKeywordIn(WrongKeywords, student)
        ELSE IF keywords = <<>>
        THEN FALSE
        ELSE 2 * matches > Len(keywords)

\* AssessmentAgent._simple_check: the rule-based check of an answer
_simple_check(question, answer) ==
    LET correct == Strip(StrLower(question.correct_answer))
        student == Strip(StrLower(answer))
        keywords == Split(correct)
        matches == Cardinality({i \in DOMAIN keywords : Contains(keywords[i], student)})
    IN  IF question.question_type = "choice"
        THEN Contains(correct, student) \/ Contains(student, correct)
        ELSE IF question.question_type = "judgment"
        THEN IF \E i \in DOMAIN CorrectKeywords : CorrectKeywords[i] = correct
             THEN AnyKeywordIn(CorrectKeywords, student)
             ELSE AnyKeywordIn(WrongKeywords, student)
        ELSE IF keywords = <<>>
        THEN FALSE
        ELSE 2 * matches >= Len(keywords)

\* faulty variant: the grade is compared as it was written
NormalizeGradeExact(grade) ==
    IF grade \in {<<"A">>, <<"B">>, <<"C">>} THEN grade[1] ELSE "C"

\* grade_str = str(grade).strip().upper(); a grade outside A, B, C becomes C
NormalizeGrade(grade) ==
    LET grade_str == StrUpper(Strip(grade))
    IN  IF grade_str \in {<<"A">>, <<"B">>, <<"C">>} THEN grade_str[1] ELSE "C"

\* a candidate block is accepted when it parses and carries the required keys
Accepted(c) == c.parses /\ RequiredKeys \subseteq c.keys

\* the feedback of an accepted block: the feedback field, then, for an
\* incorrect answer, the error description and the improvement suggestion
StructuredFeedback(c) ==
    <<"feedback">>
    \o (IF ~c.is_correct /\ c.error_type # None /\ c.error_description
        THEN <<"error_description">> ELSE <<>>)
    \o (IF ~c.is_correct /\ c.improvement_suggestion
        THEN <<"improvement_suggestion">> ELSE <<>>)

\* faulty variant: the blocks of the response are not read
evaluate_answer_fallback_only(question, student_answer, response) ==
    LET is_correct == _simple_check(question, student_answer)
    IN  <<is_correct, IF is_correct THEN "A" ELSE "C", <<response.tag>>, None>>

\* AssessmentAgent.evaluate_answer, given what _call_llm returned: the tuple
\* (is_correct, grade, feedback, error_type)
evaluate_answer(question, student_answer, response) ==
    LET cands == response.candidates
        hits == {i \in DOMAIN cands : Accepted(cands[i])}
    IN  IF hits # {}
        THEN LET c == cands[CHOOSE i \in hits : \A j \in hits : i <= j]
             IN  <<c.is_correct, NormalizeGrade(c.grade), StructuredFeedback(c),
                   c.error_type>>
        ELSE LET is_correct == _simple_check(question, student_answer)
             IN  <<is_correct, IF is_correct THEN "A" ELSE "C", <<response.tag>>, None>>

(***************************************************************************)
(* Teaching agent: each request is one call of the generative service      *)
(***************************************************************************)
teach(reply) == _call_llm(reply).tag

generate_hints_for_question(reply) == _call_llm(reply).tag

generate_remediation(reply) == _call_llm(reply).tag

(***************************************************************************)
(* Phase handlers and question selector (LearningAgent)                    *)
(*                                                                         *)
(* A handler yields the set of its possible outcomes, one per reply of the *)
(* generative service and per random choice: [result, session, current,    *)
(* raised, calls, failures, graded], the dict it returns (or raised =      *)
(* TRUE), the session object and the live-question table as it leaves      *)
(* them, the requests it made, in order, whether each of them raised       *)
(* inside _call_llm, and the tuple evaluate_answer returned.               *)
(* A response text is the sequence of its parts.                           *)
(***************************************************************************)
Result(response, state, grade, is_question, question, mastered) ==
    [response |-> response, state |-> state, grade |-> grade,
     is_question |-> is_question, question |-> question, mastered |-> mastered]

\* stands for "no dict was returned" where the call raised
NoResult == Result(<<>>, "raised", "raised", FALSE, None, FALSE)

\* what evaluate_answer returned in a turn that graded nothing
NotGraded == <<>>

Out(result, session, cur, calls, graded) ==
    [result |-> result, session |-> session, current |-> cur, raised |-> FALSE,
     calls |-> calls, failures |-> <<>>, graded |-> graded]

Raise(session, cur, calls, graded) ==
    [result |-> NoResult, session |-> session, current |-> cur, raised |-> TRUE,
     calls |-> calls, failures |-> <<>>, graded |-> graded]

\* the outcome o of the code that follows a request to the generative
\* service, with the record of whether that request raised inside _call_llm
Called(reply, o) == [o EXCEPT !.failures = <<reply.failed>> \o @]

\* faulty variant: one slot holds the current question of every session
_remember_current_question_shared(cur, session, question) ==
    [s \in DOMAIN cur |-> question]

\* faulty variant: a question already recorded for the session is kept
_remember_current_question_first(cur, session, question) ==
    IF session.id # "" /\ cur[session.id] = None
    THEN [cur EXCEPT ![session.id] = question]
    ELSE cur

\* faulty variant: the question is not recorded
_remember_current_question_dropped(cur, session, question) == cur

_remember_current_question(cur, session, question) ==
    IF session.id # "" THEN [cur EXCEPT ![session.id] = question] ELSE cur

\* faulty variant: with nothing recorded, a question of the bank is taken
_get_current_question_from_bank(cur, session, want_transfer) ==
    LET bank == {q \in questions : Question(q).is_transfer = want_transfer}
    IN  IF cur[session.id] # None /\ Question(cur[session.id]).is_transfer = want_transfer
        THEN cur[session.id]
        ELSE IF bank # {} THEN CHOOSE q \in bank : TRUE
        ELSE None

\* faulty variant: the transfer flag of the bound question is not compared
_get_current_question_any_flag(cur, session, want_transfer) ==
    IF session.id = "" THEN None ELSE cur[session.id]

\* want_transfer is always given (False or True) by the two callers
_get_current_question(cur, session, want_transfer) ==
    IF session.id = "" THEN None
    ELSE IF cur[session.id] = None THEN None
    ELSE IF Question(cur[session.id]).is_transfer = want_transfer THEN cur[session.id]
    ELSE None

\* faulty variant: with no practice question the recorded question is cleared
_start_assessment_clears(session, cur) ==
    LET found == IF session.topic_id # NoTopic
                 THEN get_questions_by_topic(session.subject, session.topic_id)
                 ELSE get_questions_by_subject(session.subject)
        pool == {q \in found : ~Question(q).is_transfer}
    IN  IF pool = {}
        THEN { Out(Result(<<"NO_PRACTICE_QUESTIONS">>, "learning", session.current_grade,
                          FALSE, None, FALSE), session,
                   [cur EXCEPT ![session.id] = None], <<>>, NotGraded) }
        ELSE { Out(Result(<<"PRACTICE_QUESTION">>, "assessing", session.current_grade,
                          TRUE, question, FALSE),
                   session, _remember_current_question(cur, session, question), <<>>,
                   NotGraded)
               : question \in pool }

\* faulty variant: the transfer questions are not filtered out
_start_assessment_unfiltered(session, cur) ==
    LET pool == IF session.topic_id # NoTopic
                THEN get_questions_by_topic(session.subject, session.topic_id)
                ELSE get_questions_by_subject(session.subject)
    IN  IF pool = {}
        THEN { Out(Result(<<"NO_PRACTICE_QUESTIONS">>, "learning", session.current_grade,
                          FALSE, None, FALSE), session, cur, <<>>, NotGraded) }
        ELSE { Out(Result(<<"PRACTICE_QUESTION">>, "assessing", session.current_grade,
                          TRUE, question, FALSE),
                   session, _remember_current_question(cur, session, question), <<>>,
                   NotGraded)
               : question \in pool }

_start_assessment(session, cur) ==
    LET found == IF session.topic_id # NoTopic
                 THEN get_questions_by_topic(session.subject, session.topic_id)
                 ELSE get_questions_by_subject(session.subject)
        pool == {q \in found : ~Question(q).is_transfer}
    IN  IF pool = {}
        THEN { Out(Result(<<"NO_PRACTICE_QUESTIONS">>, "learning", session.current_grade,
                          FALSE, None, FALSE), session, cur, <<>>, NotGraded) }
        ELSE { Out(Result(<<"PRACTICE_QUESTION">>, "assessing", session.current_grade,
                          TRUE, question, FALSE),
                   session, _remember_current_question(cur, session, question), <<>>,
                   NotGraded)
               : question \in pool }

\* faulty variant: the loop does not stop at the first topic it finds
MentionedTopicLast(session, msg) ==
    LET topics == get_topics_by_subject(session.subject)
        hits == {i \in DOMAIN topics :
                    \/ topics[i].name # <<>> /\ Contains(topics[i].name, msg)
                    \/ topics[i].id # <<>> /\ Contains(topics[i].id, msg)}
    IN  IF hits = {} THEN session.topic_id
        ELSE topics[CHOOSE i \in hits : \A j \in hits : i >= j].id

\* the topic the loop of _handle_learning leaves in session.topic_id
MentionedTopic(session, msg) ==
    LET topics == get_topics_by_subject(session.subject)
        hits == {i \in DOMAIN topics :
                    \/ topics[i].name # <<>> /\ Contains(topics[i].name, msg)
                    \/ topics[i].id # <<>> /\ Contains(topics[i].id, msg)}
    IN  IF hits = {} THEN session.topic_id
        ELSE topics[CHOOSE i \in hits : \A j \in hits : i <= j].id

_handle_learning(session, user_message, cur) ==
    IF _wants_practice(user_message)
    THEN _start_assessment(session, cur)
    ELSE LET s1 == [session EXCEPT !.topic_id = MentionedTopic(session, user_message)]
         IN  { Called(r, Out(Result(<<teach(r)>>, "learning", s1.current_grade, FALSE,
                                    None, FALSE),
                   s1, cur, <<"teach">>, NotGraded))
               : r \in GenReplies }

\* faulty variant: the transfer question is returned with grade B
_start_transfer_test_grade_b(session, prev_feedback, cur, calls, graded) ==
    LET transfer_questions ==
            IF session.topic_id # NoTopic
            THEN get_transfer_questions(session.subject, session.topic_id)
            ELSE {q \in get_questions_by_subject(session.subject) : Question(q).is_transfer}
    IN  IF transfer_questions = {}
        THEN { Out(Result(prev_feedback \o <<"MASTERED">>, "mastered", "A", FALSE, None,
                          TRUE), session, cur, calls, graded) }
        ELSE { Out(Result(prev_feedback \o <<"TRANSFER_QUESTION">>, "transfer_test", "B",
                          TRUE, question, FALSE),
                   session, _remember_current_question(cur, session, question), calls,
                   graded)
               : question \in transfer_questions }

_start_transfer_test(session, prev_feedback, cur, calls, graded) ==
    LET transfer_questions ==
            IF session.topic_id # NoTopic
            THEN get_transfer_questions(session.subject, session.topic_id)
            ELSE {q \in get_questions_by_subject(session.subject) : Question(q).is_transfer}
    IN  IF transfer_questions = {}
        THEN { Out(Result(prev_feedback \o <<"MASTERED">>, "mastered", "A", FALSE, None,
                          TRUE), session, cur, calls, graded) }
        ELSE { Out(Result(prev_feedback \o <<"TRANSFER_QUESTION">>, "transfer_test", "A",
                          TRUE, question, FALSE),
                   session, _remember_current_question(cur, session, question), calls,
                   graded)
               : question \in transfer_questions }

\* faulty variant: remediation one failure early
FailureLimitEarly == 3 - 1

\* faulty variant: remediation one failure late
FailureLimitLate == 3 + 1

\* if session.consecutive_failures >= 3
FailureLimit == 3

\* faulty variant: a correct answer leaves the failure counter as it was
AssessmentGradedKeepsCount(session, cur, question, ev) ==
    IF Len(ev) # 4
    THEN { Raise(session, cur, <<"evaluate_answer">>, ev) }
    ELSE
    LET is_correct == ev[1]
        grade == ev[2]
        feedback == ev[3]
        s1 == [session EXCEPT !.current_grade = grade]
        passed == s1
        failed == [s1 EXCEPT !.consecutive_failures = @ + 1]
    IN  IF is_correct
        THEN IF grade = "A"
             THEN _start_transfer_test(passed, feedback, cur, <<"evaluate_answer">>, ev)
             ELSE { Out(Result(feedback \o <<"KEEP_GOING">>, "learning", grade, FALSE,
                               None, FALSE), passed, cur, <<"evaluate_answer">>, ev) }
        ELSE IF failed.consecutive_failures >= FailureLimit
        THEN { Called(r, Out(Result(feedback \o <<"REMEDIATION", generate_remediation(r)>>,
                          "remediation", "C", FALSE, None, FALSE),
                   failed, cur, <<"evaluate_answer", "generate_remediation">>, ev))
               : r \in GenReplies }
        ELSE { Out(Result(feedback \o <<"TRY_AGAIN">>, "assessing", grade, TRUE, question,
                          FALSE), failed, cur, <<"evaluate_answer">>, ev) }

\* _handle_assessment from the call of evaluate_answer on: ev is the tuple
\* it returned, unpacked into is_correct, grade, feedback, error_type
AssessmentGraded(session, cur, question, ev) ==
    IF Len(ev) # 4
    THEN { Raise(session, cur, <<"evaluate_answer">>, ev) }
    ELSE
    LET is_correct == ev[1]
        grade == ev[2]
        feedback == ev[3]
        s1 == [session EXCEPT !.current_grade = grade]
        passed == [s1 EXCEPT !.consecutive_failures = 0]
        failed == [s1 EXCEPT !.consecutive_failures = @ + 1]
    IN  IF is_correct
        THEN IF grade = "A"
             THEN _start_transfer_test(passed, feedback, cur, <<"evaluate_answer">>, ev)
             ELSE { Out(Result(feedback \o <<"KEEP_GOING">>, "learning", grade, FALSE,
                               None, FALSE), passed, cur, <<"evaluate_answer">>, ev) }
        ELSE IF failed.consecutive_failures >= FailureLimit
        THEN { Called(r, Out(Result(feedback \o <<"REMEDIATION", generate_remediation(r)>>,
                          "remediation", "C", FALSE, None, FALSE),
                   failed, cur, <<"evaluate_answer", "generate_remediation">>, ev))
               : r \in GenReplies }
        ELSE { Out(Result(feedback \o <<"TRY_AGAIN">>, "assessing", grade, TRUE, question,
                          FALSE), failed, cur, <<"evaluate_answer">>, ev) }

\* faulty variant: a hint request is graded like an answer
_handle_assessment_grades_hints(session, user_message, cur) ==
    LET question == _get_current_question(cur, session, FALSE)
    IN  IF question = None
        THEN { Out(Result(<<"NO_CURRENT_QUESTION">>, "learning", session.current_grade,
                          FALSE, None, FALSE), session, cur, <<>>, NotGraded) }
        ELSE UNION { { Called(r, o) : o \in AssessmentGraded(session, cur, question,
                        evaluate_answer(Question(question), user_message, _call_llm(r))) }
                     : r \in EvalReplies }

_handle_assessment(session, user_message, cur) ==
    LET question == _get_current_question(cur, session, FALSE)
    IN  IF question = None
        THEN { Out(Result(<<"NO_CURRENT_QUESTION">>, "learning", session.current_grade,
                          FALSE, None, FALSE), session, cur, <<>>, NotGraded) }
        ELSE IF _wants_hint(user_message)
        THEN { Called(r, Out(Result(<<generate_hints_for_question(r), "CONTINUE_ANSWERING">>,
                          "assessing", session.current_grade, TRUE, question, FALSE),
                   session, cur, <<"generate_hints_for_question">>, NotGraded))
               : r \in GenReplies }
        ELSE UNION { { Called(r, o) : o \in AssessmentGraded(session, cur, question,
                        evaluate_answer(Question(question), user_message, _call_llm(r))) }
                     : r \in EvalReplies }

\* _handle_transfer_test from the call of evaluate_answer on: ev is the tuple
\* it returned, unpacked into is_correct, grade, feedback
TransferGraded(session, cur, ev) ==
    IF Len(ev) # 3
    THEN { Raise(session, cur, <<"evaluate_answer">>, ev) }
    ELSE
    LET is_correct == ev[1]
        grade == ev[2]
        feedback == ev[3]
    IN  IF is_correct \/ grade \in {"A", "B"}
        THEN { Out(Result(<<"TRANSFER_PASSED">> \o feedback, "mastered", "A", FALSE, None,
                          TRUE), session, cur, <<"evaluate_answer">>, ev) }
        ELSE { Out(Result(feedback \o <<"TRANSFER_FAILED">>, "learning", "B", FALSE, None,
                          FALSE), session, cur, <<"evaluate_answer">>, ev) }

\* faulty variant: the hint branch returns the state of the assessment handler
_handle_transfer_test_hint_state(session, user_message, cur) ==
    LET question == _get_current_question(cur, session, TRUE)
    IN  IF question = None
        THEN { Out(Result(<<"NO_TRANSFER_QUESTION">>, "learning", session.current_grade,
                          FALSE, None, FALSE), session, cur, <<>>, NotGraded) }
        ELSE IF _wants_hint(user_message)
        THEN { Called(r, Out(Result(<<generate_hints_for_question(r), "CONTINUE_ANSWERING">>,
                          "assessing", session.current_grade, TRUE, question, FALSE),
                   session, cur, <<"generate_hints_for_question">>, NotGraded))
               : r \in GenReplies }
        ELSE UNION { { Called(r, o) : o \in TransferGraded(session, cur,
                        evaluate_answer(Question(question), user_message, _call_llm(r))) }
                     : r \in EvalReplies }

_handle_transfer_test(session, user_message, cur) ==
    LET question == _get_current_question(cur, session, TRUE)
    IN  IF question = None
        THEN { Out(Result(<<"NO_TRANSFER_QUESTION">>, "learning", session.current_grade,
                          FALSE, None, FALSE), session, cur, <<>>, NotGraded) }
        ELSE IF _wants_hint(user_message)
        THEN { Called(r, Out(Result(<<generate_hints_for_question(r), "CONTINUE_ANSWERING">>,
                          "transfer_test", session.current_grade, TRUE, question, FALSE),
                   session, cur, <<"generate_hints_for_question">>, NotGraded))
               : r \in GenReplies }
        ELSE UNION { { Called(r, o) : o \in TransferGraded(session, cur,
                        evaluate_answer(Question(question), user_message, _call_llm(r))) }
                     : r \in EvalReplies }

\* faulty variant: the failure counter is not reset
_handle_remediation_keeps_count(session, user_message, cur) ==
    { Called(r, Out(Result(<<teach(r)>>, "learning", "C", FALSE, None, FALSE), session, cur,
          <<"teach">>, NotGraded))
      : r \in GenReplies }

\* faulty variant: grade B is returned
_handle_remediation_grade_b(session, user_message, cur) ==
    LET s1 == [session EXCEPT !.consecutive_failures = 0]
    IN  { Called(r, Out(Result(<<teach(r)>>, "learning", "B", FALSE, None, FALSE),
              s1, cur, <<"teach">>, NotGraded))
          : r \in GenReplies }

\* faulty variant: the handler also writes the next phase to the session
_handle_remediation_sets_state(session, user_message, cur) ==
    LET s1 == [session EXCEPT !.consecutive_failures = 0, !.state = "learning"]
    IN  { Called(r, Out(Result(<<teach(r)>>, "learning", "C", FALSE, None, FALSE), s1, cur,
              <<"teach">>, NotGraded))
          : r \in GenReplies }

_handle_remediation(session, user_message, cur) ==
    LET s1 == [session EXCEPT !.consecutive_failures = 0]
    IN  { Called(r, Out(Result(<<teach(r)>>, "learning", "C", FALSE, None, FALSE), s1, cur,
              <<"teach">>, NotGraded))
          : r \in GenReplies }

(***************************************************************************)
(* Session dispatcher                                                      *)
(***************************************************************************)
\* the phase handlers process_message calls for a session in this state
PhaseHandlers(state) ==
    IF state = "learning" THEN <<"_handle_learning">>
    ELSE IF state = "assessing" THEN <<"_handle_assessment">>
    ELSE IF state = "transfer_test" THEN <<"_handle_transfer_test">>
    ELSE IF state = "remediation" THEN <<"_handle_remediation">>
    ELSE <<>>

\* the outcomes of the handler process_message dispatches to; with no
\* handler for the state, the result stays the dict built on entry
Dispatch(session, user_message, cur) ==
    IF session.state = "learning" THEN _handle_learning(session, user_message, cur)
    ELSE IF session.state = "assessing" THEN _handle_assessment(session, user_message, cur)
    ELSE IF session.state = "transfer_test"
    THEN _handle_transfer_test(session, user_message, cur)
    ELSE IF session.state = "remediation"
    THEN _handle_remediation(session, user_message, cur)
    ELSE { Out(Result(<<>>, session.state, session.current_grade, FALSE, None, FALSE),
               session, cur, <<>>, NotGraded) }

\* faulty variant: only the phase of the result is written to the session
CommitStateOnly(session, result) == [session EXCEPT !.state = result.state]

\* session.state = result["state"]; session.current_grade = result["grade"]
Commit(session, result) ==
    [session EXCEPT !.state = result.state, !.current_grade = result.grade]

\* faulty variant: the failure of the save is not caught
SaveErrorUncaught(save_fails) == save_fails

\* try: db.update_session(session) / except Exception: pass -- whether a
\* failure of the save reaches the caller of process_message
SaveErrorPropagates(save_fails) == FALSE

\* LearningAgent.process_message: the possible turns on this session object.
\* A turn is [raised, result, handler_result, handler_session, session,
\* current, handlers, calls, failures, graded, appended, save_attempts,
\* save_failed];
\* handler_session is the session object as the handler left it, before the
\* commit, and appended is what the turn added to session.messages.
process_message(session, user_message, cur) ==
    LET user_entry == [role |-> "user", content |-> user_message]
        Done(o, save_fails) ==
            [raised |-> SaveErrorPropagates(save_fails),
             result |-> IF SaveErrorPropagates(save_fails) THEN NoResult ELSE o.result,
             handler_result |-> o.result,
             handler_session |-> o.session,
             session |-> Commit(o.session, o.result),
             current |-> o.current,
             handlers |-> PhaseHandlers(session.state),
             calls |-> o.calls,
             failures |-> o.failures,
             graded |-> o.graded,
             appended |-> <<user_entry,
                            [role |-> "assistant", content |-> o.result.response]>>,
             save_attempts |-> 1,
             save_failed |-> save_fails]
        Failed(o) ==
            [raised |-> TRUE,
             result |-> NoResult,
             handler_result |-> NoResult,
             handler_session |-> o.session,
             session |-> o.session,
             current |-> o.current,
             handlers |-> PhaseHandlers(session.state),
             calls |-> o.calls,
             failures |-> o.failures,
             graded |-> o.graded,
             appended |-> <<user_entry>>,
             save_attempts |-> 0,
             save_failed |-> FALSE]
    IN  UNION { IF o.raised THEN {Failed(o)} ELSE {Done(o, f) : f \in BOOLEAN}
                : o \in Dispatch(session, user_message, cur) }

(***************************************************************************)
(* The program: the transport layer (src/backend.py) creates sessions,     *)
(* runs one turn per chat request and edits the question bank.             *)
(***************************************************************************)
\* the student messages the model sends: a practice request, a hint request,
\* two answers, a mention of the second history topic, and a mention of the
\* second history topic followed by one of the first
Messages ==
    { <<"q", "u", "i", "z">>,
      <<"H", "i", "n", "t">>,
      <<"B">>,
      <<"n", "o">>,
      <<"t", "2">>,
      <<"t", "2", " ", "t", "1">> }

NoSession ==
    [id |-> "", subject |-> "", topic_id |-> NoTopic, state |-> "none",
     current_grade |-> "none", consecutive_failures |-> 0]

\* the value of turn after an operation that is not a chat turn
NoTurn(kind) ==
    [kind |-> kind, sid |-> "", message |-> <<>>, before |-> NoSession,
     current_before |-> None, raised |-> FALSE, result |-> NoResult,
     handler_result |-> NoResult, handler_session |-> NoSession,
     handlers |-> <<>>, calls |-> <<>>, failures |-> <<>>,
     graded |-> NotGraded, appended |-> <<>>, save_attempts |-> 0,
     save_failed |-> FALSE]

Init ==
    /\ questions = QuestionIds
    /\ sessions = [s \in {} |-> NoSession]
    /\ current = [s \in SessionIds |-> None]
    /\ turn = NoTurn("init")

\* POST /api/sessions
CreateSession(sid, subject) ==
    /\ sid \notin DOMAIN sessions
    /\ sessions' = [s \in DOMAIN sessions \cup {sid} |->
                       IF s = sid THEN create_session(sid, subject) ELSE sessions[s]]
    /\ turn' = NoTurn("create_session")
    /\ UNCHANGED <<questions, current>>

\* POST /api/chat
Chat(sid, message) ==
    /\ sid \in DOMAIN sessions
    /\ \E t \in process_message(sessions[sid], message, current) :
          /\ sessions' = [sessions EXCEPT ![sid] = t.session]
          /\ current' = t.current
          /\ turn' = [kind |-> "turn", sid |-> sid, message |-> message,
                      before |-> sessions[sid], current_before |-> current[sid],
                      raised |-> t.raised, result |-> t.result,
                      handler_result |-> t.handler_result,
                      handler_session |-> t.handler_session, handlers |-> t.handlers,
                      calls |-> t.calls, failures |-> t.failures, graded |-> t.graded, appended |-> t.appended,
                      save_attempts |-> t.save_attempts, save_failed |-> t.save_failed]
    /\ UNCHANGED questions

\* DELETE /api/questions/{id}
DeleteQuestion(q) ==
    /\ q \in questions
    /\ questions' = questions \ {q}
    /\ turn' = NoTurn("delete_question")
    /\ UNCHANGED <<sessions, current>>

\* one student: the sessions the transport layer opens in Spec
OneStudent == {"s1"}

Next ==
    \/ \E sid \in OneStudent, subject \in Subjects : CreateSession(sid, subject)
    \/ \E sid \in OneStudent, message \in Messages : Chat(sid, message)
    \/ \E q \in QuestionIds : DeleteQuestion(q)

\* The server: sessions come from create_session only.
Spec == Init /\ [][Next]_vars

(***************************************************************************)
(* Two students: the server with two sessions open, whose chat requests    *)
(* arrive in any order.  The endpoint and process_message have no await,   *)
(* so a turn runs to its end before the next request is served.            *)
(***************************************************************************)
\* a practice request, a hint request and two answers
MessagesTwo == Messages \ { <<"t", "2">>, <<"t", "2", " ", "t", "1">> }

NextTwo ==
    \/ \E sid \in SessionIds, subject \in Subjects : CreateSession(sid, subject)
    \/ \E sid \in SessionIds, message \in MessagesTwo : Chat(sid, message)

SpecTwo == Init /\ [][NextTwo]_vars

(***************************************************************************)
(* process_message as a function of its arguments: a turn on any Session   *)
(* object a caller can hand it (any phase, grade, topic and failure count  *)
(* up to MaxInitFailures), whatever the live-question table holds for its  *)
(* id.                                                                     *)
(***************************************************************************)
MaxInitFailures == 3

TopicIds == {NoTopic, <<"t", "1">>, <<"t", "2">>, <<"t", "3">>}

AnySession(sid) ==
    { [id |-> sid, subject |-> subject, topic_id |-> topic_id, state |-> state,
       current_grade |-> grade, consecutive_failures |-> n]
      : subject \in Subjects, topic_id \in TopicIds, state \in SessionStates,
        grade \in GradeLevels, n \in 0..MaxInitFailures }

InitAny ==
    /\ questions = QuestionIds
    /\ sessions \in [OneStudent -> UNION {AnySession(sid) : sid \in OneStudent}]
    /\ \A sid \in OneStudent : sessions[sid].id = sid
    /\ current \in [SessionIds -> QuestionIds \cup {None}]
    /\ \A sid \in SessionIds \ OneStudent : current[sid] = None
    /\ turn = NoTurn("init")

NextAny == \E sid \in OneStudent, message \in Messages : Chat(sid, message)

SpecAny == InitAny /\ [][NextAny]_vars

(***************************************************************************)
(* The grading interpreter as a function of its arguments: _simple_check   *)
(* and evaluate_answer applied to a question, a student text and a reply   *)
(* of the generative service.  The two functions keep no state, so a run   *)
(* is one call.                                                            *)
(***************************************************************************)
\* reference answers: affirmative and negative tokens in two languages, a
\* padded capitalised token, phrases of two and of three tokens, and one of
\* whitespace only
ReferenceAnswers ==
    { <<"c", "o", "r", "r", "e", "c", "t">>,
      <<"r", "i", "g", "h", "t">>,
      <<" ", "T", "r", "u", "e", " ">>,
      <<"y", "e", "s">>,
      <<"U6B63", "U786E">>,
      <<"U5BF9">>,
      <<"U221A">>,
      <<"U9519", "U8BEF">>,
      <<"f", "a", "l", "s", "e">>,
      <<"n", "o", " ", "t", "a", "x">>,
      <<"n", "o", " ", "t", "a", "x", " ", "b">>,
      <<" ", " ">> }

\* student texts: negative tokens only, affirmative tokens only, a negated
\* affirmative, the empty text, a blank, a choice letter and a capitalised
\* phrase
StudentTexts ==
    { <<"w", "r", "o", "n", "g", ",", " ", "d", "e", "f", "i", "n", "i", "t", "e", "l", "y", " ", "f", "a", "l", "s", "e">>,
      <<"n", "o">>,
      <<"U9519", "U8BEF">>,
      <<"f", "a", "l", "s", "e">>,
      <<"U4E0D", "U5BF9">>,
      <<"Y", "e", "s">>,
      <<"U6B63", "U786E">>,
      <<"U00D7">>,
      <<>>,
      <<" ">>,
      <<"B">>,
      <<"N", "o", " ", "T", "a", "x">> }

QuestionTypes == {"choice", "judgment", "qa", "fill", "application"}

\* the fields of a Question the grading interpreter reads
AnyQuestion ==
    { [question_type |-> question_type, correct_answer |-> correct_answer]
      : question_type \in QuestionTypes, correct_answer \in ReferenceAnswers }

\* replies in which the pattern finds two blocks with the required keys
TwoBlockReplies ==
    { [failed |-> FALSE, tag |-> "LLM_JSON", candidates |->
         << Candidate(TRUE, RequiredKeys, TRUE, <<"A">>, None),
            Candidate(TRUE, RequiredKeys, FALSE, <<"C">>, "conceptual") >>],
      [failed |-> FALSE, tag |-> "LLM_JSON", candidates |->
         << Candidate(TRUE, RequiredKeys, FALSE, <<"C">>, "conceptual"),
            Candidate(TRUE, RequiredKeys, TRUE, <<"A">>, None) >>] }

GradingReplies == EvalReplies \cup TwoBlockReplies

\* the value of turn after a call of _simple_check
SimpleCheck(question, answer) ==
    /\ turn.kind = "init"
    /\ turn' = [kind |-> "_simple_check", question |-> question, answer |-> answer,
                is_correct |-> _simple_check(question, answer)]
    /\ UNCHANGED <<questions, sessions, current>>

\* the value of turn after a call of evaluate_answer
EvaluateAnswer(question, answer, reply) ==
    /\ turn.kind = "init"
    /\ turn' = [kind |-> "evaluate_answer", question |-> question, answer |-> answer,
                response |-> _call_llm(reply),
                returned |-> evaluate_answer(question, answer, _call_llm(reply))]
    /\ UNCHANGED <<questions, sessions, current>>

NextGrading ==
    \/ \E question \in AnyQuestion, answer \in StudentTexts : SimpleCheck(question, answer)
    \/ \E question \in AnyQuestion, answer \in StudentTexts, reply \in GradingReplies :
          EvaluateAnswer(question, answer, reply)

SpecGrading == Init /\ [][NextGrading]_vars

(***************************************************************************)
(* The conversation teach presents to the generative service, as a         *)
(* function of the message log process_message hands it.  A run is one     *)
(* call.                                                                   *)
(***************************************************************************)
MaxLogLen == 11

\* the contents of the entries of a log, by position
EntryNames ==
    <<"m1", "m2", "m3", "m4", "m5", "m6", "m7", "m8", "m9", "m10", "m11", "m12",
      "m13">>

\* the message logs a session can have when a chat request arrives: entries
\* of the student and of the assistant, in any order
AnyLog ==
    UNION { { [i \in 1..n |-> [role |-> roles[i], content |-> <<EntryNames[i]>>]]
              : roles \in [1..n -> {"user", "assistant"}] }
            : n \in 0..MaxLogLen }

\* session.messages[-10:]
LastTen(messages) ==
    IF Len(messages) <= 10 THEN messages
    ELSE SubSeq(messages, Len(messages) - 9, Len(messages))

\* TeachingAgent.teach: the list `messages` it hands to _call_llm
teach_messages(session_messages, user_message) ==
    <<[role |-> "system", content |-> <<"system_prompt">>]>>
    \o SelectSeq(LastTen(session_messages),
                 LAMBDA msg : msg.role \in {"system", "user", "assistant"})
    \o <<[role |-> "user", content |-> user_message]>>

\* a turn in Learning without the practice intent, up to the call of
\* _call_llm: process_message appends the message to the log, then teach
\* builds the conversation
Teach(log, user_message) ==
    /\ turn.kind = "init"
    /\ LET messages == log \o <<[role |-> "user", content |-> user_message]>>
       IN  turn' = [kind |-> "teach", before |-> log, message |-> user_message,
                    messages |-> messages,
                    presented |-> teach_messages(messages, user_message)]
    /\ UNCHANGED <<questions, sessions, current>>

NextTeach ==
    \E log \in AnyLog, user_message \in {m \in Messages : ~_wants_practice(m)} :
        Teach(log, user_message)

SpecTeach == Init /\ [][NextTeach]_vars

(***************************************************************************)
(* Properties.  turn describes the last operation; after a chat turn,      *)
(* turn.before is the session as the turn found it and sessions[turn.sid]  *)
(* the session as the turn left it.                                        *)
(***************************************************************************)
IsTurn == turn.kind = "turn"

After == sessions[turn.sid]

\* the turn graded an answer: evaluate_answer returned a tuple
Graded == Len(turn.graded) > 0

JudgedCorrect == turn.graded[1]

JudgedGrade == turn.graded[2]

\* a live question of the wanted kind was bound when the turn began
LiveBefore(is_transfer) ==
    /\ turn.current_before # None
    /\ Question(turn.current_before).is_transfer = is_transfer

\* the questions of the session's topic, or of its subject with no topic set
InScope(session) ==
    {q \in questions : /\ Question(q).subject = session.subject
                       /\ session.topic_id # NoTopic
                            => Question(q).topic_id = session.topic_id}

PracticePool(session) == {q \in InScope(session) : ~Question(q).is_transfer}

TransferPool(session) == {q \in InScope(session) : Question(q).is_transfer}

\* C1: in TransferTest with a transfer live question bound, a non-hint answer
\* that is marked correct or graded A or B makes the turn return phase
\* Mastered with mastered = true and no question prompt.
C1_TransferPassReturnsMastered ==
    (/\ IsTurn
     /\ turn.before.state = "transfer_test"
     /\ LiveBefore(TRUE)
     /\ ~_wants_hint(turn.message)
     /\ Graded
     /\ (JudgedCorrect \/ JudgedGrade \in {"A", "B"}))
    => (/\ ~turn.raised
        /\ turn.result.state = "mastered"
        /\ turn.result.mastered
        /\ ~turn.result.is_question)

\* C2: in every phase and for every message, the turn runs to completion and
\* returns a result with response, state, grade, is_question, question and
\* mastered; no turn ends by raising to the caller.
C2_TurnAlwaysReturnsResult ==
    IsTurn
    => (/\ ~turn.raised
        /\ turn.result.state \in SessionStates
        /\ turn.result.grade \in GradeLevels
        /\ turn.result.is_question \in BOOLEAN
        /\ turn.result.question \in QuestionIds \cup {None}
        /\ turn.result.mastered \in BOOLEAN)

\* C3: in Assessing with a live assessment question, a non-hint answer judged
\* correct with grade A moves the session to TransferTest with a transfer
\* question of the topic (or subject) bound when one exists, and to Mastered
\* when none exists; either way consecutive_failures is 0 after the turn.
C3_CorrectAStartsTransferOrMasters ==
    (/\ IsTurn
     /\ turn.before.state = "assessing"
     /\ LiveBefore(FALSE)
     /\ ~_wants_hint(turn.message)
     /\ Graded
     /\ JudgedCorrect
     /\ JudgedGrade = "A")
    => (/\ ~turn.raised
        /\ After.consecutive_failures = 0
        /\ IF TransferPool(turn.before) # {}
           THEN /\ After.state = "transfer_test"
                /\ turn.result.state = "transfer_test"
                /\ turn.result.question \in TransferPool(turn.before)
                /\ current[turn.sid] = turn.result.question
           ELSE /\ After.state = "mastered"
                /\ turn.result.state = "mastered")

C3_Witness ==
    /\ IsTurn
    /\ turn.before.state = "assessing"
    /\ turn.before.consecutive_failures = 2
    /\ Graded
    /\ JudgedCorrect
    /\ JudgedGrade = "A"
    /\ After.state = "transfer_test"
    /\ current[turn.sid] = "h2"
    /\ After.consecutive_failures = 0

\* C4: in Assessing every incorrect answer adds exactly 1 to
\* consecutive_failures; the turn on which the counter reaches 3 returns phase
\* Remediation with grade C; and the counter never exceeds 3.
C4_FailuresCountToRemediation ==
    /\ \A sid \in DOMAIN sessions : sessions[sid].consecutive_failures <= 3
    /\ (/\ IsTurn
        /\ turn.before.state = "assessing"
        /\ Graded
        /\ ~JudgedCorrect)
       => (/\ ~turn.raised
           /\ After.consecutive_failures = turn.before.consecutive_failures + 1
           /\ After.consecutive_failures = 3
                => (/\ turn.result.state = "remediation"
                    /\ turn.result.grade = "C"
                    /\ After.state = "remediation"
                    /\ After.current_grade = "C")
           /\ After.consecutive_failures < 3 => turn.result.state = "assessing")

C4_Witness ==
    /\ IsTurn
    /\ turn.before.state = "assessing"
    /\ turn.before.consecutive_failures = 2
    /\ Graded
    /\ ~JudgedCorrect
    /\ JudgedGrade = "B"
    /\ After.consecutive_failures = 3
    /\ After.state = "remediation"

\* C5: for a session in Assessing with no live question bound, the turn
\* returns phase Learning with is_question = false and no question, whatever
\* the message, a hint request included.
C5_AssessingUnboundReturnsLearning ==
    (/\ IsTurn
     /\ turn.before.state = "assessing"
     /\ turn.current_before = None)
    => (/\ ~turn.raised
        /\ turn.result.state = "learning"
        /\ ~turn.result.is_question
        /\ turn.result.question = None
        /\ turn.calls = <<>>)

C5_Witness ==
    /\ IsTurn
    /\ turn.before.state = "assessing"
    /\ turn.current_before = None
    /\ _wants_hint(turn.message)
    /\ turn.result.state = "learning"
    /\ After.state = "learning"

\* C6: in Assessing and in TransferTest a message that matches the hint
\* intent is never passed to the grading interpreter: hint generation runs,
\* evaluate_answer is not called, and consecutive_failures is not changed.
C6_HintIsNeverGraded ==
    (/\ IsTurn
     /\ turn.before.state \in {"assessing", "transfer_test"}
     /\ _wants_hint(turn.message))
    => (/\ turn.calls = <<"generate_hints_for_question">>
        /\ ~Graded
        /\ After.consecutive_failures = turn.before.consecutive_failures)

C6_Witness ==
    /\ IsTurn
    /\ turn.before.state = "transfer_test"
    /\ _wants_hint(turn.message)
    /\ turn.calls = <<"generate_hints_for_question">>
    /\ turn.result.response = <<"LLM_UNAVAILABLE", "CONTINUE_ANSWERING">>

\* C7: a hint request in Assessing or TransferTest leaves the session's phase,
\* grade and live question as they were, so they are the same after any
\* number of consecutive hint requests as before the first.
C7_HintKeepsPhaseGradeQuestion ==
    (/\ IsTurn
     /\ turn.before.state \in {"assessing", "transfer_test"}
     /\ _wants_hint(turn.message))
    => (/\ ~turn.raised
        /\ After.state = turn.before.state
        /\ After.current_grade = turn.before.current_grade
        /\ current[turn.sid] = turn.current_before
        /\ turn.result.state = turn.before.state
        /\ turn.result.grade = turn.before.current_grade
        /\ turn.result.question = turn.current_before)

C7_Witness ==
    /\ IsTurn
    /\ turn.before.state = "assessing"
    /\ turn.before.current_grade = "B"
    /\ turn.before.consecutive_failures = 2
    /\ _wants_hint(turn.message)
    /\ After.state = "assessing"
    /\ After.current_grade = "B"
    /\ current[turn.sid] = "h3"

\* C8: in Learning, a message matching the practice intent, when a
\* non-transfer question exists for the session's topic (or subject with no
\* topic set), returns phase Assessing with is_question = true and a question
\* of that pool, which is the session's live question; the grade is unchanged.
C8_PracticeRequestStartsAssessment ==
    (/\ IsTurn
     /\ turn.before.state = "learning"
     /\ _wants_practice(turn.message)
     /\ PracticePool(turn.before) # {})
    => (/\ ~turn.raised
        /\ turn.result.state = "assessing"
        /\ After.state = "assessing"
        /\ turn.result.is_question
        /\ turn.result.question \in PracticePool(turn.before)
        /\ current[turn.sid] = turn.result.question
        /\ turn.result.grade = turn.before.current_grade
        /\ After.current_grade = turn.before.current_grade)

C8_Witness ==
    /\ IsTurn
    /\ turn.before.state = "learning"
    /\ turn.before.current_grade = "B"
    /\ turn.current_before = "h3"
    /\ _wants_practice(turn.message)
    /\ After.state = "assessing"
    /\ current[turn.sid] = "h1"

\* C9: a failing save is swallowed by the dispatcher: the turn raises nothing
\* and returns exactly the result the handler produced, as with a save that
\* succeeds.
C9_SaveFailureIsSwallowed ==
    (IsTurn /\ turn.save_failed)
    => (/\ ~turn.raised
        /\ turn.result = turn.handler_result
        /\ After.state = turn.result.state
        /\ After.current_grade = turn.result.grade)

C9_Witness ==
    /\ IsTurn
    /\ turn.save_failed
    /\ turn.before.state = "assessing"
    /\ turn.result.state = "remediation"
    /\ After.state = "remediation"

\* C10: every turn invokes exactly one phase handler, the one of the
\* session's phase at the start of the turn, in every phase, Mastered
\* included.
C10_ExactlyOneHandlerPerTurn ==
    IsTurn => Len(turn.handlers) = 1

\* the sessions a chat turn on this session with this message can leave
TurnsOn(sid, message) == process_message(sessions[sid], message, current)

\* C11: a session that has reached Mastered can restart learning: in every
\* state with phase Mastered some message has a turn that leaves the session
\* in phase Learning.
C11_MasteredCanRestartLearning ==
    \A sid \in DOMAIN sessions :
        sessions[sid].state = "mastered"
        => \E message \in Messages :
              \E t \in TurnsOn(sid, message) : ~t.raised /\ t.session.state = "learning"

\* C12: in TransferTest with a transfer live question bound, a non-hint
\* answer judged incorrect with grade C returns phase Learning with grade B,
\* no question prompt and mastered = false.
C12_TransferFailReturnsLearningB ==
    (/\ IsTurn
     /\ turn.before.state = "transfer_test"
     /\ LiveBefore(TRUE)
     /\ ~_wants_hint(turn.message)
     /\ Graded
     /\ ~JudgedCorrect
     /\ JudgedGrade = "C")
    => (/\ ~turn.raised
        /\ turn.result.state = "learning"
        /\ turn.result.grade = "B"
        /\ ~turn.result.is_question
        /\ ~turn.result.mastered)

\* C13: in Assessing an answer judged correct with a grade other than A
\* returns phase Learning with no question prompt; and consecutive_failures
\* is 0 after any turn whose answer was judged correct.
C13_CorrectResetsFailures ==
    /\ (/\ IsTurn
        /\ turn.before.state = "assessing"
        /\ Graded
        /\ JudgedCorrect
        /\ JudgedGrade # "A")
       => (/\ ~turn.raised
           /\ turn.result.state = "learning"
           /\ After.state = "learning"
           /\ ~turn.result.is_question
           /\ turn.result.question = None)
    /\ (IsTurn /\ Graded /\ JudgedCorrect) => After.consecutive_failures = 0

C13_Witness ==
    /\ IsTurn
    /\ turn.before.state = "assessing"
    /\ turn.before.consecutive_failures = 2
    /\ Graded
    /\ JudgedCorrect
    /\ JudgedGrade = "B"
    /\ After.state = "learning"
    /\ After.consecutive_failures = 0

\* C14 as stated: the counter is reset to 0 on entering remediation: after
\* any turn that leaves the session in phase Remediation,
\* consecutive_failures is 0.
C14_ResetOnEnteringRemediation ==
    (IsTurn /\ After.state = "remediation") => After.consecutive_failures = 0

\* C14 as the code has it: the turn that leaves the session in Remediation
\* leaves the counter at the count that triggered it (at least 3); the
\* counter is reset to 0 by the next turn, which the remediation handler
\* serves.
C14_ResetOnLeavingRemediation ==
    /\ (IsTurn /\ After.state = "remediation")
       => (/\ After.consecutive_failures >= 3
           /\ After.consecutive_failures = turn.before.consecutive_failures + 1)
    /\ (IsTurn /\ turn.before.state = "remediation")
       => (/\ turn.before.consecutive_failures >= 3
           /\ After.consecutive_failures = 0)

C14_Witness ==
    /\ IsTurn
    /\ turn.before.state = "remediation"
    /\ turn.before.consecutive_failures = 3
    /\ After.consecutive_failures = 0
    /\ After.state = "learning"
    /\ turn.save_failed

\* C15: for a session in Remediation any message returns phase Learning with
\* grade C, no question prompt and mastered = false, and consecutive_failures
\* is 0 after the turn.
C15_RemediationReturnsLearningC ==
    (IsTurn /\ turn.before.state = "remediation")
    => (/\ ~turn.raised
        /\ turn.result.state = "learning"
        /\ turn.result.grade = "C"
        /\ ~turn.result.is_question
        /\ turn.result.question = None
        /\ ~turn.result.mastered
        /\ After.state = "learning"
        /\ After.current_grade = "C"
        /\ After.consecutive_failures = 0)

C15_Witness ==
    /\ IsTurn
    /\ turn.before.state = "remediation"
    /\ _wants_hint(turn.message)
    /\ turn.calls = <<"teach">>
    /\ turn.result.state = "learning"
    /\ turn.result.response = <<"LLM_UNAVAILABLE">>
    /\ After.consecutive_failures = 0

\* C16: in Assessing, an incorrect non-hint answer that leaves
\* consecutive_failures below 3 keeps the session in Assessing, with the same
\* live question still bound and returned as a question prompt.
C16_IncorrectKeepsQuestion ==
    (/\ IsTurn
     /\ turn.before.state = "assessing"
     /\ LiveBefore(FALSE)
     /\ ~_wants_hint(turn.message)
     /\ Graded
     /\ ~JudgedCorrect
     /\ After.consecutive_failures < 3)
    => (/\ ~turn.raised
        /\ turn.result.state = "assessing"
        /\ After.state = "assessing"
        /\ current[turn.sid] = turn.current_before
        /\ turn.result.is_question
        /\ turn.result.question = turn.current_before
        /\ ~turn.result.mastered)

C16_Witness ==
    /\ IsTurn
    /\ turn.before.state = "assessing"
    /\ turn.before.consecutive_failures = 1
    /\ turn.current_before = "h3"
    /\ ~_wants_hint(turn.message)
    /\ Graded
    /\ ~JudgedCorrect
    /\ After.consecutive_failures = 2
    /\ After.state = "assessing"
    /\ current[turn.sid] = "h3"
    /\ turn.result.question = "h3"

\* C17: on every turn the user message is appended to the session's message
\* log before the phase handler runs and the assistant response after it:
\* what the turn adds to the log is exactly the user message followed by the
\* assistant response.
C17_LogGainsUserThenAssistant ==
    IsTurn
    => (/\ ~turn.raised
        /\ turn.appended = <<[role |-> "user", content |-> turn.message],
                             [role |-> "assistant", content |-> turn.result.response]>>)

\* C18: after every turn the session's phase and current grade equal the
\* phase and grade carried in the result of that turn; a turn that ends in an
\* exception returns no result and leaves phase and grade as the last
\* completed turn set them.
C18_SessionMatchesResult ==
    /\ (IsTurn /\ ~turn.raised)
       => (/\ After.state = turn.result.state
           /\ After.current_grade = turn.result.grade)
    /\ (IsTurn /\ turn.raised)
       => (/\ After.state = turn.before.state
           /\ After.current_grade = turn.before.current_grade)

C18_Witness ==
    /\ IsTurn
    /\ ~turn.raised
    /\ turn.before.state = "assessing"
    /\ turn.before.current_grade = "C"
    /\ turn.result.state = "learning"
    /\ turn.result.grade = "B"
    /\ After.state = "learning"
    /\ After.current_grade = "B"

\* the turn posed a question: its result carries a question prompt
Posed == IsTurn /\ ~turn.raised /\ turn.result.is_question

\* C19: every question issued by _start_assessment is non-transfer and
\* belongs to the session's subject (and to its topic when one is set); every
\* question issued by _start_transfer_test is transfer-flagged and belongs to
\* the session's subject (and topic when set); no transfer question is ever
\* posed in Assessing and no non-transfer question in TransferTest.
C19_IssuedQuestionsMatchPhase ==
    /\ (Posed /\ turn.before.state = "learning")
       => (/\ turn.result.state = "assessing"
           /\ turn.result.question \in PracticePool(After)
           /\ current[turn.sid] = turn.result.question)
    /\ (Posed /\ turn.before.state = "assessing" /\ turn.result.state = "transfer_test")
       => (/\ turn.result.question \in TransferPool(After)
           /\ current[turn.sid] = turn.result.question)
    /\ Posed
       => (/\ turn.result.question # None
           /\ turn.result.state \in {"assessing", "transfer_test"}
           /\ Question(turn.result.question).subject = After.subject
           /\ After.topic_id # NoTopic
                => Question(turn.result.question).topic_id = After.topic_id
           /\ Question(turn.result.question).is_transfer
                = (turn.result.state = "transfer_test"))

C19_Witness ==
    /\ Posed
    /\ turn.before.state = "assessing"
    /\ turn.before.topic_id = NoTopic
    /\ turn.current_before = "h1"
    /\ turn.result.state = "transfer_test"
    /\ turn.result.question = "h2"
    /\ current[turn.sid] = "h2"
    /\ "h3" \in questions

\* a question was bound when the turn began and its transfer flag disagrees
\* with the phase of the session
FlagMismatch ==
    /\ IsTurn
    /\ turn.current_before # None
    /\ \/ /\ turn.before.state = "assessing"
          /\ Question(turn.current_before).is_transfer
       \/ /\ turn.before.state = "transfer_test"
          /\ ~Question(turn.current_before).is_transfer

\* C20: if the live question bound for a session has a transfer flag that
\* disagrees with the phase, the handler treats it as no live question: the
\* turn returns phase Learning with no question prompt, and neither grades
\* nor hints on that question.
C20_FlagMismatchIsNoQuestion ==
    FlagMismatch
    => (/\ ~turn.raised
        /\ turn.result.state = "learning"
        /\ After.state = "learning"
        /\ ~turn.result.is_question
        /\ turn.result.question = None
        /\ ~turn.result.mastered
        /\ ~Graded
        /\ turn.calls = <<>>
        /\ After.consecutive_failures = turn.before.consecutive_failures)

C20_Witness ==
    /\ FlagMismatch
    /\ turn.before.state = "transfer_test"
    /\ turn.current_before = "h1"
    /\ _wants_hint(turn.message)
    /\ turn.result.state = "learning"
    /\ turn.calls = <<>>

\* the session object as the phase handler of the turn left it
Handled == turn.handler_session

ServiceFailed == IsTurn /\ \E i \in DOMAIN turn.failures : turn.failures[i]

\* the text _call_llm returns when the service raised
Unavailable == <<"LLM_UNAVAILABLE">>

\* C22: when the generative-service call fails or times out in any phase,
\* the failure is caught at the point of invocation: the turn does not
\* raise, and the returned response text contains the service-unavailable
\* message.
C22_ServiceFailureIsVisible ==
    ServiceFailed
    => (/\ ~turn.raised
        /\ Contains(Unavailable, turn.result.response))

LiveOfKind(sid, want_transfer) ==
    {_get_current_question(current, sessions[sid], want_transfer)} \ {None}

\* the turn issued a question: _start_assessment or _start_transfer_test
\* chose one and recorded it
Issued ==
    /\ Posed
    /\ \/ turn.before.state = "learning"
       \/ turn.before.state = "assessing" /\ turn.result.state = "transfer_test"

\* C24: at any time each session id has at most one live assessment question
\* and at most one live transfer question; issuing a new question replaces
\* the previous live question of that kind for that session (the table has
\* one slot per session id, so it replaces the live question of the other
\* kind as well).
C24_OneLiveQuestionPerKind ==
    /\ \A sid \in DOMAIN sessions :
          /\ Cardinality(LiveOfKind(sid, FALSE)) <= 1
          /\ Cardinality(LiveOfKind(sid, TRUE)) <= 1
          /\ Cardinality(LiveOfKind(sid, FALSE) \cup LiveOfKind(sid, TRUE)) <= 1
    /\ Issued
       => LET kind == Question(turn.result.question).is_transfer
          IN  /\ LiveOfKind(turn.sid, kind) = {turn.result.question}
              /\ LiveOfKind(turn.sid, ~kind) = {}

C24_Witness ==
    /\ Issued
    /\ turn.before.state = "learning"
    /\ turn.current_before = "h1"
    /\ turn.result.question = "h3"
    /\ LiveOfKind(turn.sid, FALSE) = {"h3"}

\* C25: in Learning, a practice request for which no non-transfer question
\* exists in the session's topic (or subject if no topic is set) returns the
\* no-questions response with phase Learning, is_question false and no
\* question, and leaves the live-question binding, grade and failure counter
\* unchanged.
C25_NoPracticeQuestionsStaysLearning ==
    (/\ IsTurn
     /\ turn.before.state = "learning"
     /\ _wants_practice(turn.message)
     /\ PracticePool(turn.before) = {})
    => (/\ ~turn.raised
        /\ turn.result.response = <<"NO_PRACTICE_QUESTIONS">>
        /\ turn.result.state = "learning"
        /\ ~turn.result.is_question
        /\ turn.result.question = None
        /\ ~turn.result.mastered
        /\ turn.calls = <<>>
        /\ current[turn.sid] = turn.current_before
        /\ After = turn.before)

C25_Witness ==
    /\ IsTurn
    /\ turn.before.state = "learning"
    /\ turn.before.subject = "history"
    /\ turn.before.current_grade = "B"
    /\ _wants_practice(turn.message)
    /\ PracticePool(turn.before) = {}
    /\ "h2" \in questions
    /\ turn.current_before = "h1"
    /\ current[turn.sid] = "h1"
    /\ After.state = "learning"

\* the affirmative tokens the claim names, and their localized equivalents
AffirmativeTokens ==
    { <<"c", "o", "r", "r", "e", "c", "t">>, <<"r", "i", "g", "h", "t">>,
      <<"t", "r", "u", "e">>, <<"y", "e", "s">>, <<"U6B63", "U786E">>, <<"U5BF9">> }

\* the student text "wrong, definitely false": negative tokens only
WrongDefinitelyFalse ==
    <<"w", "r", "o", "n", "g", ",", " ", "d", "e", "f", "i", "n", "i", "t", "e", "l",
      "y", " ", "f", "a", "l", "s", "e">>

\* C26: for a judgment question whose reference answer is an affirmative
\* token (correct/right/true/yes or a localized equivalent, e.g. "correct")
\* and a student text that contains only negative tokens (e.g. "wrong,
\* definitely false"), the deterministic fallback check returns FALSE.
C26_AffirmativeReferenceRejectsNegative ==
    (/\ turn.kind = "_simple_check"
     /\ turn.question.question_type = "judgment"
     /\ Strip(StrLower(turn.question.correct_answer)) \in AffirmativeTokens
     /\ turn.answer = WrongDefinitelyFalse)
    => ~turn.is_correct

\* the structured result of a response: its first block that parses as an
\* object with the keys is_correct, grade and feedback
HasStructuredResult(response) ==
    \E i \in DOMAIN response.candidates :
        /\ response.candidates[i].parses
        /\ RequiredKeys \subseteq response.candidates[i].keys

TheStructuredResult(response) ==
    response.candidates[CHOOSE i \in DOMAIN response.candidates :
        /\ response.candidates[i].parses
        /\ RequiredKeys \subseteq response.candidates[i].keys
        /\ \A j \in 1..(i - 1) :
              ~(/\ response.candidates[j].parses
                /\ RequiredKeys \subseteq response.candidates[j].keys)]

RedirectResponses == { <<"NO_CURRENT_QUESTION">>, <<"NO_TRANSFER_QUESTION">> }

\* C28: in every reachable state of one orchestrator, a session whose phase
\* is Assessing has a live question bound that is non-transfer, and a
\* session whose phase is TransferTest has a live question bound that is
\* transfer-flagged; the no-live-question redirects are therefore never
\* taken in a run that starts from a fresh session.
C28_PhaseHasItsLiveQuestion ==
    /\ \A sid \in DOMAIN sessions :
          /\ sessions[sid].state = "assessing"
               => (current[sid] # None /\ ~Question(current[sid]).is_transfer)
          /\ sessions[sid].state = "transfer_test"
               => (current[sid] # None /\ Question(current[sid]).is_transfer)
    /\ IsTurn => turn.handler_result.response \notin RedirectResponses

C28_Witness ==
    /\ IsTurn
    /\ turn.before.state = "transfer_test"
    /\ ~turn.raised
    /\ After.state = "transfer_test"
    /\ current[turn.sid] = "h2"
    /\ "h2" \notin questions

\* C29: every turn issues at most two generative-service calls and exactly
\* one session save attempt, in every phase and for every message.
C29_TwoCallsOneSave ==
    IsTurn
    => (/\ Len(turn.calls) <= 2
        /\ turn.save_attempts = 1)

\* the turn graded an answer in Assessing and its grading request raised
\* inside _call_llm
GradingCallFailed ==
    /\ IsTurn
    /\ turn.before.state = "assessing"
    /\ Graded
    /\ turn.calls[1] = "evaluate_answer"
    /\ turn.failures[1]

\* what the rule-based check says of the answer of the turn
FallbackVerdict == _simple_check(Question(turn.current_before), turn.message)

\* C30: when the generative-service call fails while grading an answer in
\* Assessing, evaluate_answer treats the error text as an unparseable
\* response: the answer is judged by the deterministic fallback, the error
\* text becomes the feedback, and the handler applies the normal
\* correct/incorrect transition, so an incorrect fallback verdict still
\* increments consecutive_failures and can trigger Remediation.
C30_FailedGradingFallsBack ==
    GradingCallFailed
    => (/\ ~turn.raised
        /\ turn.graded = <<FallbackVerdict, IF FallbackVerdict THEN "A" ELSE "C",
                           Unavailable, None>>
        /\ SubSeq(turn.result.response, 1, 1) = Unavailable
        /\ FallbackVerdict
             => (/\ After.consecutive_failures = 0
                 /\ turn.result.state \in {"transfer_test", "mastered"}
                 /\ turn.result.grade = "A")
        /\ ~FallbackVerdict
             => (/\ After.consecutive_failures = turn.before.consecutive_failures + 1
                 /\ turn.result.grade = "C"
                 /\ turn.result.state
                      = IF After.consecutive_failures >= 3 THEN "remediation"
                        ELSE "assessing"))

C30_Witness ==
    /\ GradingCallFailed
    /\ ~FallbackVerdict
    /\ turn.before.consecutive_failures = 2
    /\ turn.calls = <<"evaluate_answer", "generate_remediation">>
    /\ turn.failures = <<TRUE, TRUE>>
    /\ After.consecutive_failures = 3
    /\ After.state = "remediation"

\* the place, in the list of the topics of the subject, of each topic whose
\* name or id occurs in the message of the turn
TopicsInMessage ==
    LET topics == get_topics_by_subject(turn.before.subject)
    IN  {i \in DOMAIN topics : \/ Contains(topics[i].name, turn.message)
                               \/ Contains(topics[i].id, turn.message)}

\* C31: in Learning, a message that does not match the practice intent
\* returns phase Learning with no question prompt, leaves grade, failure
\* counter and live-question binding unchanged, and sets the session's topic
\* id to the first known topic whose name or id occurs in the message,
\* leaving the topic id unchanged when no topic matches.
C31_LearningSetsMentionedTopic ==
    (/\ IsTurn
     /\ turn.before.state = "learning"
     /\ ~_wants_practice(turn.message))
    => (/\ ~turn.raised
        /\ turn.result.state = "learning"
        /\ ~turn.result.is_question
        /\ turn.result.question = None
        /\ ~turn.result.mastered
        /\ turn.result.grade = turn.before.current_grade
        /\ After.state = "learning"
        /\ After.current_grade = turn.before.current_grade
        /\ After.consecutive_failures = turn.before.consecutive_failures
        /\ current[turn.sid] = turn.current_before
        /\ TopicsInMessage = {} => After.topic_id = turn.before.topic_id
        /\ \A i \in TopicsInMessage :
              (\A j \in TopicsInMessage : i <= j)
              => After.topic_id = get_topics_by_subject(turn.before.subject)[i].id)

C31_Witness ==
    /\ IsTurn
    /\ turn.before.state = "learning"
    /\ turn.before.subject = "history"
    /\ turn.before.topic_id = <<"t", "2">>
    /\ turn.current_before = "h3"
    /\ Cardinality(TopicsInMessage) = 2
    /\ After.topic_id = <<"t", "1">>
    /\ current[turn.sid] = "h3"

\* C32: a session's live-question binding changes only on a turn that issues
\* a new question (Learning with practice intent and a non-empty pool, or
\* Assessing with an A-correct answer and a non-empty transfer pool); every
\* other turn, including turns ending in Learning, Remediation or Mastered,
\* leaves the binding exactly as it was (it is never cleared), and whenever a
\* result has is_question = true its question equals the session's binding.
C32_BindingChangesOnlyOnIssue ==
    /\ (IsTurn /\ ~Issued) => current[turn.sid] = turn.current_before
    /\ Issued
       => (/\ \/ /\ turn.before.state = "learning"
                 /\ _wants_practice(turn.message)
                 /\ PracticePool(turn.before) # {}
              \/ /\ turn.before.state = "assessing"
                 /\ Graded
                 /\ JudgedCorrect
                 /\ JudgedGrade = "A"
                 /\ TransferPool(turn.before) # {}
           /\ current[turn.sid] = turn.result.question)
    /\ IsTurn => (turn.current_before # None => current[turn.sid] # None)
    /\ Posed => turn.result.question = current[turn.sid]

C32_Witness ==
    /\ IsTurn
    /\ ~Issued
    /\ turn.before.state = "assessing"
    /\ turn.current_before = "h1"
    /\ After.state = "mastered"
    /\ current[turn.sid] = "h1"

\* C33: within the lifetime of one orchestrator, after every completed turn
\* that leaves a session in phase Learning the consecutive-failure counter is
\* 0 (as it is in a new session), so every newly issued assessment question
\* starts with a failure count of 0.
C33_LearningHasNoFailures ==
    /\ \A sid \in DOMAIN sessions :
          sessions[sid].state = "learning" => sessions[sid].consecutive_failures = 0
    /\ (Issued /\ turn.before.state = "learning")
       => (/\ After.state = "assessing"
           /\ After.consecutive_failures = 0)

C33_Witness ==
    /\ Issued
    /\ turn.before.state = "learning"
    /\ turn.before.current_grade = "B"
    /\ turn.current_before = "h3"
    /\ turn.result.question = "h1"
    /\ After.state = "assessing"
    /\ After.consecutive_failures = 0

\* C34: in every turn result, mastered is true exactly when the result's
\* phase is Mastered.
C34_MasteredFlagMatchesPhase ==
    (IsTurn /\ ~turn.raised)
    => (turn.result.mastered <=> turn.result.state = "mastered")

\* C35: after every completed turn, a session whose phase is TransferTest or
\* Mastered has current grade A.
C35_TransferAndMasteredHaveGradeA ==
    \A sid \in DOMAIN sessions :
        sessions[sid].state \in {"transfer_test", "mastered"}
        => sessions[sid].current_grade = "A"

C35_Witness ==
    /\ IsTurn
    /\ ~turn.raised
    /\ turn.before.state = "transfer_test"
    /\ _wants_hint(turn.message)
    /\ turn.result.grade = "A"
    /\ After.state = "transfer_test"
    /\ After.current_grade = "A"

\* C36: the conversation that teach presents to the generative service
\* consists of exactly one system-context message plus the message history
\* truncated to its most recent 10 entries, i.e. at most 11 messages in
\* total.
C36_TeachPresentsSystemPlusTen ==
    turn.kind = "teach"
    => (/\ turn.presented[1].role = "system"
        /\ Tail(turn.presented) = LastTen(turn.messages)
        /\ Len(turn.presented) <= 11)

\* the reference answer and the student text of a call of _simple_check, as
\* the check compares them: lower-cased and trimmed
ReferenceTokens == Split(Strip(StrLower(turn.question.correct_answer)))

StudentText == Strip(StrLower(turn.answer))

TokensFound ==
    Cardinality({i \in DOMAIN ReferenceTokens : Contains(ReferenceTokens[i], StudentText)})

\* C37: for open-QA and fill-in questions the deterministic fallback splits
\* the reference answer on whitespace and returns correct exactly when the
\* number of reference tokens occurring as substrings of the student text is
\* at least half the number of reference tokens; a reference answer with zero
\* tokens is always incorrect, and a single-token reference answer is correct
\* exactly when that token occurs in the student text.
C37_HalfOfTheTokens ==
    (/\ turn.kind = "_simple_check"
     /\ turn.question.question_type \in {"qa", "fill"})
    => (/\ Len(ReferenceTokens) = 0 => ~turn.is_correct
        /\ Len(ReferenceTokens) = 1
             => (turn.is_correct <=> Contains(ReferenceTokens[1], StudentText))
        /\ Len(ReferenceTokens) > 0
             => (turn.is_correct <=> 2 * TokensFound >= Len(ReferenceTokens)))

C37_Witness ==
    /\ turn.kind = "_simple_check"
    /\ turn.question.question_type = "fill"
    /\ Len(ReferenceTokens) = 2
    /\ TokensFound = 1
    /\ turn.is_correct

\* C38: the deterministic fallback check never judges an empty (or
\* whitespace-only) student answer correct, for any question type and any
\* non-empty reference answer.
C38_EmptyAnswerIsIncorrect ==
    (/\ turn.kind = "_simple_check"
     /\ turn.question.correct_answer # <<>>
     /\ Strip(turn.answer) = <<>>)
    => ~turn.is_correct

\* the grade field of the structured result of the response, trimmed and
\* upper-cased
GradeWritten == StrUpper(Strip(TheStructuredResult(turn.response).grade))

\* C39: when a structured grading result is accepted, a grade value outside
\* the closed set {A, B, C} (after trimming and upper-casing) is normalized
\* to C, and a value inside the set is returned unchanged.
C39_GradeOutsideSetBecomesC ==
    (/\ turn.kind = "evaluate_answer"
     /\ HasStructuredResult(turn.response))
    => (/\ GradeWritten \in {<<"A">>, <<"B">>, <<"C">>}
             => turn.returned[2] = GradeWritten[1]
        /\ GradeWritten \notin {<<"A">>, <<"B">>, <<"C">>}
             => turn.returned[2] = "C"
        /\ turn.returned[1] = TheStructuredResult(turn.response).is_correct)

C39_Witness ==
    /\ turn.kind = "evaluate_answer"
    /\ HasStructuredResult(turn.response)
    /\ TheStructuredResult(turn.response).grade = <<" ", "b">>
    /\ TheStructuredResult(turn.response).is_correct
    /\ turn.returned[2] = "B"

====
